---- MODULE Spec2Model ----
(***************************************************************************)
(* A model of evaluation_script/conll18_tira_eval.py: the TIRA wrapper     *)
(* that evaluates every treebank of metadata.json, records one Status per  *)
(* treebank, averages thirteen F1 metrics over all treebanks and renders   *)
(* evaluation.prototext, stdout and stderr.                                *)
(*                                                                         *)
(* Numbers.  A score is a rational <<num, den>> with den > 0.  The scores  *)
(* the model feeds to the program are dyadic (den a power of two), so the  *)
(* program's IEEE double arithmetic on them (score * 100. / 5., sums of    *)
(* F1 values) is exact and the rational arithmetic below computes what     *)
(* Python computes.  Strings are TLA+ strings, built with \o as the        *)
(* program builds them with + and str.format.                              *)
(***************************************************************************)
EXTENDS Integers, Sequences, FiniteSets, TLC

VARIABLES
    metadata,       \* json.load(metadata_file): the sequence of entries
    treebanks,      \* number of entries the loop has started
    summation,      \* dict metric -> running sum of F1
    results,        \* list of (key, value) pairs
    results_las,    \* dict ltcode -> LAS F1
    results_mlas,   \* dict ltcode -> MLAS F1
    results_blex,   \* dict ltcode -> BLEX F1
    pc,             \* position of main(): "loop", "report", "logs", "done", "failed"
    prototext,      \* blocks written to evaluation.prototext
    stdout,         \* lines printed to sys.stdout
    stderr,         \* lines printed to sys.stderr
    exitcode,       \* process exit status, -1 while running
    rs_in,          \* round_score: the score under test
    rs_out,         \* round_score(rs_in), or <<>> before the call
    rs_twice        \* round_score(round_score(rs_in)), or <<>> before the call

mainVars == <<metadata, treebanks, summation, results, results_las, results_mlas,
              results_blex, pc, prototext, stdout, stderr, exitcode>>
roundVars == <<rs_in, rs_out, rs_twice>>
vars == <<mainVars, roundVars>>

(***************************************************************************)
(* Bounds.                                                                 *)
(***************************************************************************)
\* longest metadata sequence
MaxEntries == 2
\* scores under test are n / 2^ScoreBits, n \in 0 .. 2^ScoreBits
ScoreBits == 7

ScoreDen == 2 ^ ScoreBits

(***************************************************************************)
(* Rational scores.                                                        *)
(***************************************************************************)
Zero == <<0, 1>>

\* a + b; operands over one denominator keep it
AddScore(a, b) ==
    IF a[2] = b[2] THEN <<a[1] + b[1], a[2]>>
    ELSE <<a[1] * b[2] + b[1] * a[2], a[2] * b[2]>>

\* k * a for an integer k
Times(k, a) == <<k * a[1], a[2]>>

\* a / k for a positive integer k
Over(a, k) == <<a[1], a[2] * k>>

SameScore(a, b) == a[1] * b[2] = b[1] * a[2]

\* Python 3 round(): nearest integer, an exact tie goes to the even one
round(a) ==
    LET fl == a[1] \div a[2]
        r  == a[1] % a[2]
    IN  IF 2 * r < a[2] THEN fl
        ELSE IF 2 * r > a[2] THEN fl + 1
        ELSE IF fl % 2 = 0 THEN fl ELSE fl + 1

\* int(): truncation toward zero of a non-negative quotient
int(a) == a[1] \div a[2]

(***************************************************************************)
(* String formatting.                                                      *)
(***************************************************************************)
RECURSIVE PadLeft(_, _)
PadLeft(s, w) == IF Len(s) >= w THEN s ELSE PadLeft(" " \o s, w)

RECURSIVE PadRight(_, _)
PadRight(s, w) == IF Len(s) >= w THEN s ELSE PadRight(s \o " ", w)

RECURSIVE ZeroPad(_, _)
ZeroPad(s, w) == IF Len(s) >= w THEN s ELSE ZeroPad("0" \o s, w)

RECURSIVE Pow10(_)
Pow10(k) == IF k = 0 THEN 1 ELSE 10 * Pow10(k - 1)

\* long division: <<first k decimals of r/den as an integer, remainder>>
RECURSIVE Decimals(_, _, _, _)
Decimals(acc, r, den, k) ==
    IF k = 0 THEN <<acc, r>>
    ELSE Decimals(acc * 10 + ((r * 10) \div den), (r * 10) % den, den, k - 1)

\* "{:.<k>f}".format(a) for a >= 0: correctly rounded to k decimals
FormatFixed(a, k) ==
    LET ip   == a[1] \div a[2]
        dr   == Decimals(0, a[1] % a[2], a[2], k)
        last == IF k = 0 THEN ip ELSE dr[1]
        up   == \/ 2 * dr[2] > a[2]
                \/ 2 * dr[2] = a[2] /\ last % 2 = 1
        fr   == IF up THEN dr[1] + 1 ELSE dr[1]
        ip2  == IF fr = Pow10(k) THEN ip + 1 ELSE ip
        fr2  == IF fr = Pow10(k) THEN 0 ELSE fr
    IN  IF k = 0 THEN ToString(ip2)
        ELSE ToString(ip2) \o "." \o ZeroPad(ToString(fr2), k)

startswith(s, prefix) ==
    Len(s) >= Len(prefix) /\ SubSeq(s, 1, Len(prefix)) = prefix

endswith(s, suffix) ==
    Len(s) >= Len(suffix) /\ SubSeq(s, Len(s) - Len(suffix) + 1, Len(s)) = suffix

\* dict.get(key, default) on a dict modelled as a function
Get(d, key, default) == IF key \in DOMAIN d THEN d[key] ELSE default

\* d[key] = value
Put(d, key, value) ==
    [k \in DOMAIN d \cup {key} |-> IF k = key THEN value ELSE d[k]]

(***************************************************************************)
(* round_score                                                             *)
(***************************************************************************)
\* a variant that returns the percentage: the final "/ 100." left out
round_score_percent(score) == <<round(Over(Times(100, score), 5)) * 5, 1>>

\* a variant that rounds every tie up, as Python 2's round() does
round_score_half_up(score) ==
    LET y == Over(Times(100, score), 5)
    IN  <<((2 * y[1] + y[2]) \div (2 * y[2])) * 5, 100>>

round_score(score) == <<round(Over(Times(100, score), 5)) * 5, 100>>

(***************************************************************************)
(* The collaborators: command line, file system, loader, scorer.           *)
(***************************************************************************)
metrics == <<"Tokens", "Sentences", "Words", "UPOS", "XPOS", "UFeats", "AllTags",
             "Lemmas", "UAS", "LAS", "CLAS", "MLAS", "BLEX">>

MetricSet == {metrics[i] : i \in DOMAIN metrics}

IndexOf(metric) == CHOOSE i \in DOMAIN metrics : metrics[i] = metric

\* the positional arguments truth, system, output
args == [truth |-> "truth", system |-> "system", output |-> "output"]

GoldFiles == {"gold.conllu", "comments.conllu", "absent.conllu"}
SystemFiles == {"cycle.conllu", "roots.conllu", "tabs.conllu", "absent.conllu",
                "empty.conllu", "short.conllu", "long.conllu", "perfect.conllu",
                "partial.conllu", "odd.conllu"}

\* against the two gold files that yield no characters to compare, one system
\* file per kind of load outcome: structural error, missing, empty, non-empty
SystemKinds == {"cycle.conllu", "absent.conllu", "empty.conllu", "short.conllu"}

Entries ==
    [lcode : {"en"}, tcode : {"ewt", "gum"},
     goldfile : {"gold.conllu"}, outfile : SystemFiles]
    \cup [lcode : {"en"}, tcode : {"ewt", "gum"},
          goldfile : GoldFiles \ {"gold.conllu"}, outfile : SystemKinds]

Loaded(characters, parse) ==
    [raised |-> "", args |-> <<>>, characters |-> characters, parse |-> parse]
Raised(type, message) ==
    [raised |-> type, args |-> <<message>>, characters |-> "", parse |-> ""]

\* load_conllu_file(path) on the files of the two directories: what the call
\* returns (raised = "") or the exception it raises
load_conllu_file(path) ==
    CASE path = "truth/gold.conllu"      -> Loaded("abc", "gold")
      [] path = "truth/comments.conllu"  -> Loaded("", "gold")
      [] path = "system/cycle.conllu"    ->
             Raised("UDError", "There is a cycle in a sentence")
      [] path = "system/roots.conllu"    ->
             Raised("UDError", "There are multiple roots in a sentence")
      [] path = "system/tabs.conllu"     ->
             Raised("UDError", "The CoNLL-U line does not contain 10 tab-separated columns")
      [] path = "system/empty.conllu"    -> Loaded("", "none")
      [] path = "system/short.conllu"    -> Loaded("ab", "partial")
      [] path = "system/long.conllu"     -> Loaded("abcde", "partial")
      [] path = "system/perfect.conllu"  -> Loaded("abc", "perfect")
      [] path = "system/partial.conllu"  -> Loaded("abc", "partial")
      [] path = "system/odd.conllu"      -> Loaded("abc", "odd")
      [] OTHER                           ->
             Raised("IOError", "No such file or directory")

\* the F1 values of a parse that differs from the gold one
PartialF1(metric) ==
    CASE metric = "LAS"  -> <<7 * (ScoreDen \div 8), ScoreDen>>
      [] metric = "MLAS" -> <<5 * (ScoreDen \div 8), ScoreDen>>
      [] metric = "BLEX" -> <<ScoreDen \div 8, ScoreDen>>
      [] OTHER           -> <<ScoreDen - IndexOf(metric), ScoreDen>>

\* evaluate(gold, system): the mapping metric -> F1, or the exception raised
evaluate(gold, system) ==
    CASE system.parse = "perfect" ->
             [raised |-> "", f1 |-> [m \in MetricSet |-> <<ScoreDen, ScoreDen>>]]
      [] system.parse = "partial" ->
             [raised |-> "", f1 |-> [m \in MetricSet |-> PartialF1(m)]]
      [] OTHER ->
             [raised |-> "KeyError", f1 |-> [m \in MetricSet |-> Zero]]

(***************************************************************************)
(* main(): the state of one iteration of "for entry in metadata".          *)
(***************************************************************************)
Looping == pc = "loop" /\ treebanks < Len(metadata)

entry == metadata[treebanks + 1]

\* "_".join((entry['lcode'], entry['tcode']))
ltcode == entry.lcode \o "_" \o entry.tcode

gold == load_conllu_file(args.truth \o "/" \o entry.goldfile)

system == load_conllu_file(args.system \o "/" \o entry.outfile)

evaluation == evaluate(gold, system)

StatusKey(code) == code \o "-Status"

\* results.append((ltcode+"-Status", message)); continue
Fail(message) ==
    /\ treebanks' = treebanks + 1
    /\ results' = Append(results, <<StatusKey(ltcode), message>>)
    /\ UNCHANGED <<metadata, summation, results_las, results_mlas, results_blex, pc,
                   prototext, stdout, stderr, exitcode, roundVars>>

\* an exception no handler of main() catches: the handler of __main__
\* prints the message and calls exit(1)
Uncaught ==
    /\ pc' = "failed"
    /\ stderr' = Append(stderr,
           "Internal error (uncaught exception) in the evaluation script.\n"
           \o "Please contact straka@ufal.mff.cuni.cz so that we can fix it together.")
    /\ exitcode' = 1

(***************************************************************************)
(* The branches of the loop body.                                          *)
(***************************************************************************)
\* a variant that moves on without recording a Status
GoldLoadSkips ==
    /\ Looping
    /\ gold.raised # ""
    /\ treebanks' = treebanks + 1
    /\ UNCHANGED <<metadata, summation, results, results_las, results_mlas, results_blex,
                   pc, prototext, stdout, stderr, exitcode, roundVars>>

GoldLoadFails ==
    /\ Looping
    /\ gold.raised # ""
    /\ Fail("Error: Cannot load gold file")

\* except UDError as e
UDErrorMessage(e) ==
    IF startswith(e.args[1], "There is a cycle")
    THEN "Error: There is a cycle in generated CoNLL-U file"
    ELSE IF startswith(e.args[1], "There are multiple roots")
    THEN "Error: There are multiple roots in a sentence in generated CoNLL-U file"
    ELSE "Error: There is a format error (tabs, ID values, etc) in generated CoNLL-U file"

SystemLoadUDError ==
    /\ Looping
    /\ gold.raised = ""
    /\ system.raised = "UDError"
    /\ Fail(UDErrorMessage(system))

SystemLoadFails ==
    /\ Looping
    /\ gold.raised = ""
    /\ system.raised \notin {"", "UDError"}
    /\ Fail("Error: Cannot open generated CoNLL-U file")

BothLoaded == Looping /\ gold.raised = "" /\ system.raised = ""

SystemEmpty ==
    /\ BothLoaded
    /\ system.characters = ""
    /\ Fail("Error: The system file is empty")

\* a variant that rounds the ratio instead of truncating it
PercentageRounded(L, G) == round(<<100 * L, G>>)

\* int(100 * len(system.characters) / len(gold.characters))
Percentage(L, G) == int(<<100 * L, G>>)

DifferMessage(L, G) ==
    "Error: The concatenation of tokens in gold file and in system file differ, system file has "
    \o ToString(L) \o " nonspace characters, which is approximately "
    \o ToString(Percentage(L, G)) \o "% of the gold file"

\* a variant that compares the streams before it tests for an empty one
CharactersDifferFirst ==
    /\ BothLoaded
    /\ system.characters # gold.characters
    /\ IF Len(gold.characters) = 0
       THEN /\ treebanks' = treebanks + 1
            /\ Uncaught
            /\ UNCHANGED <<metadata, summation, results, results_las, results_mlas,
                           results_blex, prototext, stdout, roundVars>>
       ELSE Fail(DifferMessage(Len(system.characters), Len(gold.characters)))

CharactersDiffer ==
    /\ BothLoaded
    /\ system.characters # ""
    /\ system.characters # gold.characters
    /\ IF Len(gold.characters) = 0
       THEN \* ZeroDivisionError while the message is formatted
            /\ treebanks' = treebanks + 1
            /\ Uncaught
            /\ UNCHANGED <<metadata, summation, results, results_las, results_mlas,
                           results_blex, prototext, stdout, roundVars>>
       ELSE Fail(DifferMessage(Len(system.characters), Len(gold.characters)))

Comparable ==
    BothLoaded /\ system.characters # "" /\ system.characters = gold.characters

\* a variant that also records zero headline scores for the entry
EvaluateFailsZeroed ==
    /\ Comparable
    /\ evaluation.raised # ""
    /\ treebanks' = treebanks + 1
    /\ results' = Append(results, <<StatusKey(ltcode),
                      "Error: Cannot evaluate generated CoNLL-U file, internal error">>)
    /\ results_las' = Put(results_las, ltcode, Zero)
    /\ results_mlas' = Put(results_mlas, ltcode, Zero)
    /\ results_blex' = Put(results_blex, ltcode, Zero)
    /\ UNCHANGED <<metadata, summation, pc, prototext, stdout, stderr, exitcode, roundVars>>

EvaluateFails ==
    /\ Comparable
    /\ evaluation.raised # ""
    /\ Fail("Error: Cannot evaluate generated CoNLL-U file, internal error")

\* "{:.0f}".format(100 * round_score(f1))
Rounded(f1) == FormatFixed(Times(100, round_score(f1)), 0)

OKMessage(ev) ==
    "OK: Result F1 scores rounded to 5% are LAS=" \o Rounded(ev["LAS"])
    \o "% MLAS=" \o Rounded(ev["MLAS"]) \o "% BLEX=" \o Rounded(ev["BLEX"]) \o "%"

\* (ltcode+"-"+metric+"-F1", "{:.9f}".format(100 * evaluation[metric].f1))
MetricRecord(code, metric, f1) ==
    <<code \o "-" \o metric \o "-F1", FormatFixed(Times(100, f1), 9)>>

EntryScored ==
    /\ Comparable
    /\ evaluation.raised = ""
    /\ treebanks' = treebanks + 1
    /\ results' = Append(results, <<StatusKey(ltcode), OKMessage(evaluation.f1)>>)
                  \o [i \in DOMAIN metrics |->
                         MetricRecord(ltcode, metrics[i], evaluation.f1[metrics[i]])]
    /\ summation' = [m \in MetricSet |-> AddScore(Get(summation, m, Zero), evaluation.f1[m])]
    /\ results_las' = Put(results_las, ltcode, evaluation.f1["LAS"])
    /\ results_mlas' = Put(results_mlas, ltcode, evaluation.f1["MLAS"])
    /\ results_blex' = Put(results_blex, ltcode, evaluation.f1["BLEX"])
    /\ UNCHANGED <<metadata, pc, prototext, stdout, stderr, exitcode, roundVars>>

(***************************************************************************)
(* After the loop.                                                         *)
(***************************************************************************)
\* a variant that averages over the scored entries only
DivisorScored ==
    LET scored == Len(SelectSeq(results, LAMBDA r : startswith(r[2], "OK:")))
    IN  IF scored = 0 THEN treebanks ELSE scored

\* the divisor of every average
Divisor == treebanks

\* ("total-"+metric+"-F1", "{:.9f}".format(100 * summation.get(metric, 0) / treebanks))
TotalRecord(metric) ==
    <<"total-" \o metric \o "-F1",
      FormatFixed(Over(Times(100, Get(summation, metric, Zero)), Divisor), 9)>>

\* a variant that walks the metrics forward: "reversed" left out
RECURSIVE InsertTotalsForward(_, _)
InsertTotalsForward(res, k) ==
    IF k = 0 THEN res
    ELSE InsertTotalsForward(<<TotalRecord(metrics[Len(metrics) + 1 - k])>> \o res, k - 1)

\* for metric in reversed(metrics): results.insert(0, ...), from metrics[k] down
RECURSIVE InsertTotals(_, _)
InsertTotals(res, k) ==
    IF k = 0 THEN res
    ELSE InsertTotals(<<TotalRecord(metrics[k])>> \o res, k - 1)

ComputeAverages ==
    /\ pc = "loop"
    /\ treebanks = Len(metadata)
    /\ IF treebanks = 0
       THEN \* ZeroDivisionError in the first average
            /\ Uncaught
            /\ UNCHANGED <<metadata, treebanks, summation, results, results_las,
                           results_mlas, results_blex, prototext, stdout, roundVars>>
       ELSE /\ results' = InsertTotals(results, Len(metrics))
            /\ pc' = "report"
            /\ UNCHANGED <<metadata, treebanks, summation, results_las, results_mlas,
                           results_blex, prototext, stdout, stderr, exitcode, roundVars>>

\* 'measure{{\n  key: "{}"\n  value: "{}"\n}}'.format(key, value)
Measure(record) ==
    "measure{\n  key: \"" \o record[1] \o "\"\n  value: \"" \o record[2] \o "\"\n}"

WritePrototext ==
    /\ pc = "report"
    /\ prototext' = [i \in DOMAIN results |-> Measure(results[i])]
    /\ pc' = "logs"
    /\ UNCHANGED <<metadata, treebanks, summation, results, results_las, results_mlas,
                   results_blex, stdout, stderr, exitcode, roundVars>>

\* "{:10.6f}".format(100 * table.get(ltcode, 0.))
Headline(table, code) == PadLeft(FormatFixed(Times(100, Get(table, code, Zero)), 6), 10)

\* key[:-len("-Status")]
StripStatus(key) == SubSeq(key, 1, Len(key) - Len("-Status"))

StdoutLine(record) ==
    LET code == StripStatus(record[1])
    IN  PadRight(code, 13) \o " LAS=" \o Headline(results_las, code)
        \o "% MLAS=" \o Headline(results_mlas, code)
        \o "% BLEX=" \o Headline(results_blex, code)
        \o "% (" \o record[2] \o ")"

StderrLine(record) == PadRight(StripStatus(record[1]), 13) \o " " \o record[2]

StatusRecords(res) == SelectSeq(res, LAMBDA r : endswith(r[1], "-Status"))

PrintLogs ==
    /\ pc = "logs"
    /\ stdout' = [i \in DOMAIN StatusRecords(results) |->
                     StdoutLine(StatusRecords(results)[i])]
    /\ stderr' = stderr \o [i \in DOMAIN StatusRecords(results) |->
                               StderrLine(StatusRecords(results)[i])]
    /\ pc' = "done"
    /\ exitcode' = 0
    /\ UNCHANGED <<metadata, treebanks, summation, results, results_las, results_mlas,
                   results_blex, prototext, roundVars>>

(***************************************************************************)
(* The specification of a run of main().                                   *)
(***************************************************************************)
NoScore == <<>>

Metadatas == UNION {[1 .. n -> Entries] : n \in 0 .. MaxEntries}

Init ==
    /\ metadata \in Metadatas
    /\ treebanks = 0
    /\ summation = <<>>
    /\ results = <<>>
    /\ results_las = <<>>
    /\ results_mlas = <<>>
    /\ results_blex = <<>>
    /\ pc = "loop"
    /\ prototext = <<>>
    /\ stdout = <<>>
    /\ stderr = <<>>
    /\ exitcode = -1
    /\ rs_in = Zero
    /\ rs_out = NoScore
    /\ rs_twice = NoScore

Next ==
    \/ GoldLoadFails
    \/ SystemLoadUDError
    \/ SystemLoadFails
    \/ SystemEmpty
    \/ CharactersDiffer
    \/ EvaluateFails
    \/ EntryScored
    \/ ComputeAverages
    \/ WritePrototext
    \/ PrintLogs

Spec == Init /\ [][Next]_vars

(***************************************************************************)
(* The specification of round_score on its own: a score is drawn, the      *)
(* function is applied, then applied to its own result.                    *)
(***************************************************************************)
Scores == {<<n, ScoreDen>> : n \in 0 .. ScoreDen}

RoundInit ==
    /\ metadata = <<>>
    /\ treebanks = 0
    /\ summation = <<>>
    /\ results = <<>>
    /\ results_las = <<>>
    /\ results_mlas = <<>>
    /\ results_blex = <<>>
    /\ pc = "round"
    /\ prototext = <<>>
    /\ stdout = <<>>
    /\ stderr = <<>>
    /\ exitcode = -1
    /\ rs_in \in Scores
    /\ rs_out = NoScore
    /\ rs_twice = NoScore

RoundOnce ==
    /\ pc = "round"
    /\ rs_out = NoScore
    /\ rs_out' = round_score(rs_in)
    /\ UNCHANGED <<mainVars, rs_in, rs_twice>>

RoundAgain ==
    /\ pc = "round"
    /\ rs_out # NoScore
    /\ rs_twice = NoScore
    /\ rs_twice' = round_score(rs_out)
    /\ UNCHANGED <<mainVars, rs_in, rs_out>>

RoundNext == RoundOnce \/ RoundAgain

RoundSpec == RoundInit /\ [][RoundNext]_vars

(***************************************************************************)
(* What the properties below are stated in: the entries as the metadata    *)
(* gives them, and what loading and scoring each of them yields.           *)
(***************************************************************************)
CodeOf(e) == e.lcode \o "_" \o e.tcode
GoldOf(e) == load_conllu_file(args.truth \o "/" \o e.goldfile)
SystemOf(e) == load_conllu_file(args.system \o "/" \o e.outfile)
ScoresOf(e) == evaluate(GoldOf(e), SystemOf(e))

\* the entry passes every check and is scored
Succeeds(e) ==
    /\ GoldOf(e).raised = ""
    /\ SystemOf(e).raised = ""
    /\ SystemOf(e).characters # ""
    /\ SystemOf(e).characters = GoldOf(e).characters
    /\ ScoresOf(e).raised = ""

Finished == pc \in {"report", "logs", "done"}

Statuses == StatusRecords(results)

IsPrefixOf(p, t) == Len(p) <= Len(t) /\ SubSeq(t, 1, Len(p)) = p

RECURSIVE SumF1(_, _)
SumF1(metric, n) ==
    IF n = 0 THEN Zero
    ELSE LET rest == SumF1(metric, n - 1)
         IN  IF Succeeds(metadata[n])
             THEN AddScore(rest, ScoresOf(metadata[n]).f1[metric])
             ELSE rest

RECURSIVE Flatten(_)
Flatten(ss) == IF ss = <<>> THEN <<>> ELSE Head(ss) \o Flatten(Tail(ss))

\* the keys an entry contributes to the result list
KeysOf(e) ==
    IF Succeeds(e)
    THEN <<CodeOf(e) \o "-Status">>
         \o [i \in DOMAIN metrics |-> CodeOf(e) \o "-" \o metrics[i] \o "-F1"]
    ELSE <<CodeOf(e) \o "-Status">>

TotalKeys == [i \in DOMAIN metrics |-> "total-" \o metrics[i] \o "-F1"]

Keys(res) == [i \in DOMAIN res |-> res[i][1]]

(***************************************************************************)
(* C1.  No failure raised while one entry is processed leaves the loop:    *)
(* once main() is past the loop, every entry of the metadata has its       *)
(* Status record, and the process never exits with status 1 part-way       *)
(* through the entries.                                                    *)
(***************************************************************************)
C1_EveryEntryReported ==
    pc # "loop" => Len(Statuses) = Len(metadata)

(***************************************************************************)
(* C2.  While the loop runs there is one Status record per entry started,  *)
(* and when it has finished over N entries there are exactly N records     *)
(* whose key ends in "-Status", the i-th belonging to the i-th entry.      *)
(***************************************************************************)
C2_OneStatusPerEntry ==
    /\ pc = "loop" => Len(Statuses) = treebanks
    /\ Finished =>
          /\ Len(Statuses) = Len(metadata)
          /\ \A i \in DOMAIN metadata :
                Statuses[i][1] = CodeOf(metadata[i]) \o "-Status"

C2_Witness ==
    /\ pc = "done"
    /\ Len(metadata) = 2
    /\ Succeeds(metadata[1])
    /\ ~Succeeds(metadata[2])
    /\ CodeOf(metadata[1]) # CodeOf(metadata[2])
    /\ Len(Statuses) = 2

(***************************************************************************)
(* C3.  Each total-<metric>-F1 value is the sum of the metric's F1 over    *)
(* the scored entries divided by the number N of all entries, rendered     *)
(* with nine decimals; it is 0 when no entry was scored.                   *)
(***************************************************************************)
C3_AverageOverAllEntries ==
    Finished =>
        \A k \in DOMAIN metrics :
            /\ results[k][2] =
                   FormatFixed(<<100 * SumF1(metrics[k], Len(metadata))[1],
                                 SumF1(metrics[k], Len(metadata))[2] * Len(metadata)>>, 9)
            /\ (\A i \in DOMAIN metadata : ~Succeeds(metadata[i]))
                   => results[k][2] = "0.000000000"

C3_Witness ==
    /\ pc = "done"
    /\ Len(metadata) = 2
    /\ Succeeds(metadata[1])
    /\ ~Succeeds(metadata[2])
    /\ results[IndexOf("LAS")] = <<"total-LAS-F1", "50.000000000">>

(***************************************************************************)
(* C4.  A step that classifies an entry as a failure appends that entry's  *)
(* Status record and nothing else: the sums and the LAS, MLAS and BLEX     *)
(* tables are unchanged, the entry counter advances by one and the loop    *)
(* goes on.                                                                *)
(***************************************************************************)
ClassifiedAsFailure ==
    /\ pc = "loop"
    /\ Len(results') > Len(results)
    /\ startswith(results'[Len(results) + 1][2], "Error:")

C4_FailureOnlyAppendsStatus ==
    [][ClassifiedAsFailure =>
          /\ Len(results') = Len(results) + 1
          /\ SubSeq(results', 1, Len(results)) = results
          /\ results'[Len(results')][1] = CodeOf(entry) \o "-Status"
          /\ summation' = summation
          /\ results_las' = results_las
          /\ results_mlas' = results_mlas
          /\ results_blex' = results_blex
          /\ treebanks' = treebanks + 1
          /\ pc' = "loop"]_vars

C4_Witness ==
    /\ pc = "loop"
    /\ treebanks = 2
    /\ Succeeds(metadata[1])
    /\ SystemOf(metadata[2]).parse = "odd"
    /\ Len(results) = Len(metrics) + 2
    /\ startswith(results[Len(results)][2], "Error:")
    /\ DOMAIN results_las = {CodeOf(metadata[1])}

(***************************************************************************)
(* C5.  The Status of an entry is that of the first failing step, in the   *)
(* order: gold load, candidate structural error (cycle, multiple roots,    *)
(* other), other candidate load failure, empty candidate, character        *)
(* mismatch, scoring failure; OK only when none of them fails.             *)
(***************************************************************************)
StatusExpected(e, message) ==
    LET g == GoldOf(e)
        c == SystemOf(e)
    IN  IF g.raised # ""
        THEN message = "Error: Cannot load gold file"
        ELSE IF c.raised = "UDError" /\ IsPrefixOf("There is a cycle", c.args[1])
        THEN message = "Error: There is a cycle in generated CoNLL-U file"
        ELSE IF c.raised = "UDError" /\ IsPrefixOf("There are multiple roots", c.args[1])
        THEN message =
                 "Error: There are multiple roots in a sentence in generated CoNLL-U file"
        ELSE IF c.raised = "UDError"
        THEN message =
                 "Error: There is a format error (tabs, ID values, etc) in generated CoNLL-U file"
        ELSE IF c.raised # ""
        THEN message = "Error: Cannot open generated CoNLL-U file"
        ELSE IF c.characters = ""
        THEN message = "Error: The system file is empty"
        ELSE IF c.characters # g.characters
        THEN IsPrefixOf("Error: The concatenation of tokens in gold file and in system file differ",
                        message)
        ELSE IF ScoresOf(e).raised # ""
        THEN message = "Error: Cannot evaluate generated CoNLL-U file, internal error"
        ELSE IsPrefixOf("OK: Result F1 scores rounded to 5% are", message)

C5_FirstFailingStepDecides ==
    \A i \in DOMAIN Statuses : StatusExpected(metadata[i], Statuses[i][2])

C5_Witness ==
    \E i \in DOMAIN Statuses :
        /\ metadata[i].goldfile = "gold.conllu"
        /\ metadata[i].outfile = "empty.conllu"
        /\ Statuses[i][2] = "Error: The system file is empty"

(***************************************************************************)
(* C6.  The final result list holds the thirteen total-<metric>-F1 records *)
(* first, in the declared metric order, then per entry, in processing      *)
(* order, its Status record followed, if it was scored, by its thirteen    *)
(* <code>-<metric>-F1 records; evaluation.prototext holds one block per    *)
(* record in that order.                                                   *)
(***************************************************************************)
C6_TotalsFirstThenEntries ==
    /\ Finished =>
          Keys(results) =
              TotalKeys \o Flatten([i \in DOMAIN metadata |-> KeysOf(metadata[i])])
    /\ pc \in {"logs", "done"} =>
          /\ Len(prototext) = Len(results)
          /\ \A i \in DOMAIN results :
                IsPrefixOf("measure{\n  key: \"" \o results[i][1] \o "\"\n", prototext[i])

C6_Witness ==
    /\ pc = "done"
    /\ Len(metadata) = 2
    /\ ~Succeeds(metadata[1])
    /\ Succeeds(metadata[2])
    /\ Len(prototext) = 2 * Len(metrics) + 2
    /\ results[Len(metrics) + 1][1] = CodeOf(metadata[1]) \o "-Status"
    /\ results[Len(metrics) + 2][1] = CodeOf(metadata[2]) \o "-Status"

(***************************************************************************)
(* C7.  round_score returns the multiple of 0.05 nearest to the score.     *)
(* As claimed: at an exact midpoint it returns the larger multiple.        *)
(* As the code has it: at an exact midpoint it returns the multiple        *)
(* 0.05 * k with k even, which is the larger one at 0.375 and 0.875 and    *)
(* the smaller one at 0.125 and 0.625.                                     *)
(***************************************************************************)
\* twice the distance of 20 * score from k, over the denominator of score
Dist2(score, k) ==
    IF 20 * score[1] >= k * score[2]
    THEN 2 * (20 * score[1] - k * score[2])
    ELSE 2 * (k * score[2] - 20 * score[1])

IsMidpoint(score) == (40 * score[1]) % score[2] = 0 /\ ((40 * score[1]) \div score[2]) % 2 = 1

C7_TiesRoundUp ==
    rs_out # NoScore =>
        \E k \in 0 .. 20 :
            /\ rs_out = <<5 * k, 100>>
            /\ \/ Dist2(rs_in, k) < rs_in[2]
               \/ Dist2(rs_in, k) = rs_in[2] /\ 20 * rs_in[1] < k * rs_in[2]

C7_TiesRoundToEven ==
    rs_out # NoScore =>
        \E k \in 0 .. 20 :
            /\ rs_out = <<5 * k, 100>>
            /\ \/ Dist2(rs_in, k) < rs_in[2]
               \/ Dist2(rs_in, k) = rs_in[2] /\ k % 2 = 0

C7_Witness ==
    /\ IsMidpoint(rs_in)
    /\ SameScore(rs_in, <<5, 8>>)
    /\ rs_out = <<60, 100>>

(***************************************************************************)
(* C8.  round_score is idempotent: its result is a multiple of 0.05 in     *)
(* [0, 1], and applying it to its own result returns that result.          *)
(***************************************************************************)
C8_Idempotent ==
    /\ rs_out # NoScore =>
          /\ rs_out[2] = 100
          /\ rs_out[1] \in {5 * k : k \in 0 .. 20}
    /\ rs_twice # NoScore => rs_twice = rs_out

C8_Witness ==
    /\ rs_out = <<55, 100>>
    /\ rs_twice = <<55, 100>>
    /\ ~SameScore(rs_in, rs_out)

(***************************************************************************)
(* C9.  When the candidate's non-empty character stream of length L        *)
(* differs from the reference's of length G, the Status message reports    *)
(* L and the integer floor(100 * L / G).                                   *)
(***************************************************************************)
\* the integer p with p <= 100 * L / G < p + 1
Floor100(L, G) == CHOOSE p \in 0 .. 100 * L : p * G <= 100 * L /\ 100 * L < (p + 1) * G

C9_ReportsCountAndFloor ==
    \A i \in DOMAIN Statuses :
        LET g == GoldOf(metadata[i])
            c == SystemOf(metadata[i])
        IN  (g.raised = "" /\ c.raised = "" /\ c.characters # ""
                /\ c.characters # g.characters)
            => Statuses[i][2] =
                 "Error: The concatenation of tokens in gold file and in system file differ, system file has "
                 \o ToString(Len(c.characters))
                 \o " nonspace characters, which is approximately "
                 \o ToString(Floor100(Len(c.characters), Len(g.characters)))
                 \o "% of the gold file"

C9_Witness ==
    \E i \in DOMAIN Statuses :
        /\ metadata[i].outfile = "short.conllu"
        /\ IsPrefixOf(SystemOf(metadata[i]).characters, GoldOf(metadata[i]).characters)
        /\ endswith(Statuses[i][2],
                    "has 2 nonspace characters, which is approximately 66% of the gold file")

(***************************************************************************)
(* C10.  The stdout line of each Status record shows the LAS, MLAS and     *)
(* BLEX of that same entry: its own F1 values if it was scored, 0 if not.  *)
(***************************************************************************)
OwnScore(e, metric) == IF Succeeds(e) THEN ScoresOf(e).f1[metric] ELSE Zero

OwnHeadline(e, metric) == PadLeft(FormatFixed(Times(100, OwnScore(e, metric)), 6), 10)

C10_LineShowsOwnScores ==
    pc = "done" =>
        \A i \in DOMAIN metadata :
            IsPrefixOf(PadRight(CodeOf(metadata[i]), 13)
                       \o " LAS=" \o OwnHeadline(metadata[i], "LAS")
                       \o "% MLAS=" \o OwnHeadline(metadata[i], "MLAS")
                       \o "% BLEX=" \o OwnHeadline(metadata[i], "BLEX") \o "% (",
                       stdout[i])

====
